---- MODULE Spec2Model ----
(***************************************************************************)
(* Model of the propagation / readout engine of higher-order-EGP:          *)
(*   src/models/conv/gin.py  GINConv                                       *)
(*   src/models/gnn.py       GNN_node, GNN_node_expander, GNN              *)
(*                                                                         *)
(* Numbers.  Tensors of shape (num_nodes, emb_dim) are modelled as         *)
(* functions Nodes -> Int: one integer component per node.  Every          *)
(* operation of the source acts row-wise on nodes (masks are expanded      *)
(* uniformly over emb_dim, gnn.py:197-199), so one component per node      *)
(* keeps which node's value flows where.  Arithmetic is exact integer      *)
(* arithmetic; the division of batch normalisation is integer division.    *)
(* Learned parameters are inputs: Init draws them from ParamSets and all   *)
(* sublayers use the drawn values.                                         *)
(***************************************************************************)
EXTENDS Integers, Sequences, FiniteSets, TLC

\* ------------------------------------------------------------------ bounds
MaxLayer == 3
MaxEdges == 1
MaxSeed == 0
MaxGraphs == 2
MaxSeqLen == 2
MaxEpochs == 3
MaxScore == 2

\* dropout keeps an element scaled by 1/(1-drop_ratio); drop_ratio = 0.5
DropScale == 2

\* Python's None and a present value
None == [none |-> TRUE]
Some(v) == [none |-> FALSE, val |-> v]

\* the nodes of a batch
Nodes == {1, 2, 3}
NumNodes == Cardinality(Nodes)
Vals == {-1, 2}
Vec == [Nodes -> Vals]
Zero == [i \in Nodes |-> 0]
Ones == [i \in Nodes |-> 1]

\* learned parameters: linear weight and bias, normalisation gain and shift,
\* running statistics, GIN eps (initialised 0, gin.py:23)
ParamSets ==
  { [w |-> 1, b |-> 0, g |-> 1, be |-> 0, rm |-> 0, rv |-> 1, eps |-> 0],
    [w |-> -1, b |-> 1, g |-> 2, be |-> 1, rm |-> 1, rv |-> 4, eps |-> 1] }

\* ------------------------------------------------------------- arithmetic
RECURSIVE SumOver(_, _)
SumOver(S, v) ==
  IF S = {} THEN 0
  ELSE LET i == CHOOSE j \in S : TRUE IN v[i] + SumOver(S \ {i}, v)

Sum(v) == SumOver(DOMAIN v, v)

ISqrt(n) == CHOOSE r \in 0..n : r * r <= n /\ (r + 1) * (r + 1) > n

relu(v) == IF v > 0 THEN v ELSE 0

Linear(p, v) == [i \in DOMAIN v |-> p.w * v[i] + p.b]

\* torch.nn.BatchNorm1d: batch statistics over all rows when training,
\* running statistics otherwise.  A normalised value is kept in halves
\* (factor 2), and sqrt(var + eps) is ISqrt(var) + 1, so that the default
\* running statistics (0, 1) give gain * v + shift.
BatchNorm1d(p, v, training) ==
  LET n == Cardinality(DOMAIN v)
      mean == IF training THEN Sum(v) \div n ELSE p.rm
      var == IF training
               THEN Sum([i \in DOMAIN v |-> (v[i] - mean) * (v[i] - mean)]) \div n
               ELSE p.rv
  IN [i \in DOMAIN v |->
        p.g * ((2 * (v[i] - mean)) \div (ISqrt(var) + 1)) + p.be]

\* F.dropout: identity unless training; the mask is a function of the
\* generator state, which every call advances
RngMod == 2 ^ NumNodes
DropSet(r) == {i \in Nodes : (r \div (2 ^ (i - 1))) % 2 = 1}
NextRng(r) == (5 * r + 3) % RngMod
dropout(v, training, r) ==
  IF training
    THEN [i \in DOMAIN v |-> IF i \in DropSet(r) THEN 0 ELSE DropScale * v[i]]
    ELSE v

\* ---------------------------------------------------------------- GINConv
\* gin.py:54-58
message(x_j, edge_attr) ==
  IF ~edge_attr.none THEN relu(x_j + edge_attr.val) ELSE relu(x_j)

\* MessagePassing.propagate, aggr = "add", flow = source_to_target: the
\* message of edge k is computed from its source edge_index[k][1] and added
\* at its target edge_index[k][2]
RECURSIVE AggregateFrom(_, _, _, _, _)
AggregateFrom(k, x, edge_index, edge_embedding, i) ==
  IF k > Len(edge_index) THEN 0
  ELSE (IF edge_index[k][2] = i
          THEN message(x[edge_index[k][1]],
                       IF edge_embedding.none THEN None
                       ELSE Some(edge_embedding.val[k]))
          ELSE 0)
       + AggregateFrom(k + 1, x, edge_index, edge_embedding, i)

AggregateSelfLoops(x, edge_index, edge_embedding) ==
  [i \in DOMAIN x |->
     relu(x[i]) + AggregateFrom(1, x, edge_index, edge_embedding, i)]

Aggregate(x, edge_index, edge_embedding) ==
  [i \in DOMAIN x |-> AggregateFrom(1, x, edge_index, edge_embedding, i)]

\* gin.py:24-29, the edge encoder applied to each edge attribute
edge_encoder(p, edge_attr) ==
  [k \in DOMAIN edge_attr |-> p.w * edge_attr[k] + p.b]

\* gin.py:19-22
mlp(p, v, training) ==
  Linear(p, [i \in DOMAIN v |-> relu(BatchNorm1d(p, Linear(p, v), training)[i])])

\* a mutant of MaskInput: the masking flag is ignored
MaskInputNone(x, masking, expander_node_mask) == x

\* gin.py:40-41
MaskInput(x, masking, expander_node_mask) ==
  IF masking THEN [i \in DOMAIN x |-> x[i] * expander_node_mask[i]] ELSE x

\* gin.py:34-37
EdgeEmbedding(p, edge_attr) ==
  IF ~edge_attr.none THEN Some(edge_encoder(p, edge_attr.val)) ELSE None

\* gin.py:43, the aggregated messages
ConvAggr(p, x, edge_index, edge_attr, masking, expander_node_mask) ==
  Aggregate(MaskInput(x, masking, expander_node_mask), edge_index,
            EdgeEmbedding(p, edge_attr))

UpdateNoRestore(out, x, expander_node_mask, update_nodes) == out

UpdateSwapped(out, x, expander_node_mask, update_nodes) ==
  IF update_nodes = "expander"
    THEN [i \in DOMAIN x |->
            expander_node_mask[i] * out[i] + (1 - expander_node_mask[i]) * x[i]]
  ELSE IF update_nodes = "original"
    THEN [i \in DOMAIN x |->
            (1 - expander_node_mask[i]) * out[i] + expander_node_mask[i] * x[i]]
  ELSE out

\* gin.py:45-50
Update(out, x, expander_node_mask, update_nodes) ==
  IF update_nodes = "expander"
    THEN [i \in DOMAIN x |->
            (1 - expander_node_mask[i]) * out[i] + expander_node_mask[i] * x[i]]
  ELSE IF update_nodes = "original"
    THEN [i \in DOMAIN x |->
            expander_node_mask[i] * out[i] + (1 - expander_node_mask[i]) * x[i]]
  ELSE out

\* gin.py:33-52
GINConv(p, training, x, edge_index, edge_attr, masking, expander_node_mask, update_nodes) ==
  LET xm == MaskInput(x, masking, expander_node_mask)
      aggr == ConvAggr(p, x, edge_index, edge_attr, masking, expander_node_mask)
      out == mlp(p, [i \in DOMAIN x |-> (1 + p.eps) * xm[i] + aggr[i]], training)
  IN Update(out, xm, expander_node_mask, update_nodes)

\* ----------------------------------------------------------- construction
JKModes == {"last", "sum"}
Handlings == {"masking", "learn-features", "summation", "summation-mlp"}
SumHandlings == {"summation", "summation-mlp"}
Poolings == {"sum", "mean", "max", "attention", "set2set"}

\* a mutant of GINConv_init: every task key is accepted
GINConv_initLenient(task) == "none"

\* gin.py:24-31, the task keys GINConv.__init__ binds an edge encoder for
GINConv_init(task) ==
  IF task \in {"mol", "ppo", "code2"} THEN "none" ELSE "NotImplementedError"

\* models/conv/gcn.py is not part of the sources: the task keys of the spec
GCNConv_init(task) ==
  IF task \in {"mol", "ppa", "code2"} THEN "none" ELSE "NotImplementedError"

\* the module lists of an engine before its layer loop (gnn.py:45-46, 136-142)
NoSublayers ==
  [err |-> "none", convs |-> 0, batch_norms |-> 0,
   expander_left_convs |-> 0, expander_left_batch_norms |-> 0,
   expander_right_convs |-> 0, expander_right_batch_norms |-> 0,
   summation |-> 0,
   graph_pred_linear_list |-> 0, graph_pred_linear |-> 0, head_parameters |-> 0]

\* a mutant of ConvInit: an unrecognized gnn_type builds the additive layer
ConvInitLenient(cfg) ==
  IF cfg.gnn_type = "gcn" THEN GCNConv_init(cfg.task) ELSE GINConv_init(cfg.task)

\* gnn.py:49-54 and 145-158, the convolution built for gnn_type
ConvInit(cfg) ==
  IF cfg.gnn_type = "gin" THEN GINConv_init(cfg.task)
  ELSE IF cfg.gnn_type = "gcn" THEN GCNConv_init(cfg.task)
  ELSE "ValueError"

\* a mutant of EncoderInit: a missing node encoder is accepted
EncoderInitLenient(cfg) == "none"

\* gnn.py:36-42 and 127-133, binding the node encoder
EncoderInit(cfg) ==
  IF cfg.task = "code2" /\ cfg.node_encoder = "None" THEN "AssertionError" ELSE "none"

\* gnn.py:48-56, the layer loop of GNN_node.__init__ from `layer` on
RECURSIVE NodeLayers(_, _, _)
NodeLayers(cfg, layer, m) ==
  IF layer >= cfg.num_layer THEN m
  ELSE IF ConvInit(cfg) # "none" THEN [m EXCEPT !.err = ConvInit(cfg)]
  ELSE NodeLayers(cfg, layer + 1,
         [m EXCEPT !.convs = @ + 1, !.batch_norms = @ + 1])

\* gnn.py:18-56
GNN_node_init(cfg) ==
  IF cfg.num_layer < 2 THEN [NoSublayers EXCEPT !.err = "ValueError"]
  ELSE IF EncoderInit(cfg) # "none" THEN [NoSublayers EXCEPT !.err = EncoderInit(cfg)]
  ELSE NodeLayers(cfg, 0, NoSublayers)

\* gnn.py:144-168, the layer loop of GNN_node_expander.__init__ from `layer` on
RECURSIVE ExpanderLayers(_, _, _)
ExpanderLayers(cfg, layer, m) ==
  IF layer >= cfg.num_layer THEN m
  ELSE IF ConvInit(cfg) # "none" THEN [m EXCEPT !.err = ConvInit(cfg)]
  ELSE LET inner == layer # cfg.num_layer - 1
           sum == cfg.expander_edge_handling \in SumHandlings
           one(c) == IF c THEN 1 ELSE 0
       IN ExpanderLayers(cfg, layer + 1,
            [m EXCEPT !.convs = @ + 1,
                      !.expander_left_convs = @ + one(inner /\ ~sum),
                      !.expander_right_convs = @ + one(inner),
                      !.batch_norms = @ + 1,
                      !.summation = @ + one(inner /\ sum),
                      !.expander_left_batch_norms = @ + one(inner),
                      !.expander_right_batch_norms = @ + one(inner)])

\* a mutant of GNN_node_expander_init: the layer loop starts at the second layer
GNN_node_expander_initShort(cfg) ==
  IF cfg.num_layer < 2 THEN [NoSublayers EXCEPT !.err = "ValueError"]
  ELSE IF EncoderInit(cfg) # "none" THEN [NoSublayers EXCEPT !.err = EncoderInit(cfg)]
  ELSE ExpanderLayers(cfg, 1, NoSublayers)

\* gnn.py:107-168
GNN_node_expander_init(cfg) ==
  IF cfg.num_layer < 2 THEN [NoSublayers EXCEPT !.err = "ValueError"]
  ELSE IF EncoderInit(cfg) # "none" THEN [NoSublayers EXCEPT !.err = EncoderInit(cfg)]
  ELSE ExpanderLayers(cfg, 0, NoSublayers)

\* gnn.py:306-319, the prediction heads: graph_pred_linear_list holds
\* max_seq_len projections for the sequence task, graph_pred_linear is the
\* single projection of the other tasks; head_parameters counts the
\* projections registered as submodules (a torch.nn.ModuleList or an
\* attribute, not the plain list of gnn.py:308)
HeadsInit(cfg, m) ==
  IF cfg.graph_pooling = "set2set"
    THEN IF cfg.task = "code2"
           THEN [m EXCEPT !.graph_pred_linear_list = cfg.max_seq_len.val]
           ELSE [m EXCEPT !.graph_pred_linear = 1, !.head_parameters = 1]
    ELSE IF cfg.task = "code2"
           THEN [m EXCEPT !.graph_pred_linear_list = cfg.max_seq_len.val,
                          !.head_parameters = cfg.max_seq_len.val]
           ELSE [m EXCEPT !.graph_pred_linear = 1, !.head_parameters = 1]

\* gnn.py:256-319
GNN_init(cfg) ==
  IF cfg.task = "code2" /\ cfg.max_seq_len.none
    THEN [NoSublayers EXCEPT !.err = "AssertionError"]
  ELSE IF cfg.num_layer < 2 THEN [NoSublayers EXCEPT !.err = "ValueError"]
  ELSE LET m == IF ~cfg.expander THEN GNN_node_init(cfg)
                ELSE GNN_node_expander_init(cfg)
       IN IF m.err # "none" THEN m
          ELSE IF cfg.graph_pooling \notin Poolings THEN [m EXCEPT !.err = "ValueError"]
          ELSE HeadsInit(cfg, m)

\* ------------------------------------------------------------------ state
VARIABLES
  pc,                   \* position of the program
  self,                 \* the constructor arguments kept by the model
  model,                \* the constructed sublayers, or the error raised
  training,             \* Module.training (model.train() / model.eval())
  rng,                  \* state of the random generator dropout draws from
  params,               \* learned parameters
  x,                    \* batched_data.x
  edge_index,           \* batched_data.edge_index
  edge_attr,            \* batched_data.edge_attr
  expander_edge_index,  \* batched_data.expander_edge_index
  expander_node_mask,   \* batched_data.expander_node_mask
  h,                    \* current node vectors
  h_list,               \* per-layer history
  layer,                \* loop variable of the layer loop
  phase,                \* the last phase that ran: "none", "main", "hub", "return"
  h_main,               \* h after the main phase of the current layer
  h_hub,                \* h after the hub phase of the current layer
  call,                 \* arguments of the last convolution / summation call
  conv_aggr,            \* aggregated messages of the last call
  conv_out,             \* result of the last convolution / summation call
  node_representation,  \* result of the engine
  err,                  \* the exception that ended the program, or "none"
  batch,                \* batched_data.batch
  h_graph,              \* pooled vectors, one per graph
  alt_representation,   \* node vectors of a second run on the same batch
  alt_graph,            \* pooled vectors of the second run
  head_params,          \* learned parameters of the prediction heads
  pred,                 \* result of GNN.forward
  first_out,            \* node_representation of the first of two forward passes
  passes,               \* number of forward passes completed before this one
  driver,               \* the training script that runs: run_ppa, run_code2, run_mol
  task_type,            \* dataset.task_type
  epochs,               \* args.epochs
  epoch,                \* the last epoch completed, 0 before the first
  valid_curve,          \* validation score of every completed epoch
  best_val_so_far,      \* best validation score the loop has recorded
  best_val_model,       \* the epoch whose weights best_val_model.pt holds, if written
  saves,                \* the epochs in which best_val_model.pt was written
  best_val_epoch        \* index chosen after the loop, if chosen

vars == <<pc, self, model, training, rng, params, x, edge_index, edge_attr,
          expander_edge_index, expander_node_mask, h, h_list, layer, phase,
          h_main, h_hub, call, conv_aggr, conv_out, node_representation, err,
          batch, h_graph, alt_representation, alt_graph, head_params, pred,
          first_out, passes, driver, task_type, epochs, epoch, valid_curve,
          best_val_so_far, best_val_model, saves, best_val_epoch>>

readout == <<batch, h_graph, alt_representation, alt_graph>>

output == <<head_params, pred, first_out, passes>>

data == <<self, training, params, x, edge_index, edge_attr,
          expander_edge_index, expander_node_mask>>

run == <<driver, task_type, epochs, epoch, valid_curve, best_val_so_far,
         best_val_model, saves, best_val_epoch>>

\* no training script runs
NoRun ==
  /\ driver = "none"
  /\ task_type = "none"
  /\ epochs = 0
  /\ epoch = 0
  /\ valid_curve = <<>>
  /\ best_val_so_far = 0
  /\ best_val_model = None
  /\ saves = {}
  /\ best_val_epoch = None

NoCall == [edge_index |-> <<>>, masking |-> FALSE, update_nodes |-> "none", x |-> Zero]

\* ------------------------------------------------------------ the engines
\* a mutant of node_encoder: the embedding drifts from one pass to the next
node_encoder_drifting(p, raw) == [i \in DOMAIN raw |-> p.w * raw[i] + p.b + passes]

\* the node encoder bound at gnn.py:36-42 / 127-133: an embedding of the raw
\* node feature
node_encoder(p, raw) == [i \in DOMAIN raw |-> p.w * raw[i] + p.b]

\* models/conv/summation.py is not part of the sources.  Spec 4.2: per target
\* node the sum of source-node vectors over the edges directed into it,
\* optionally passed through a feed-forward sublayer.
RECURSIVE SumFrom(_, _, _, _)
SumFrom(k, v, edges, i) ==
  IF k > Len(edges) THEN 0
  ELSE (IF edges[k][2] = i THEN v[edges[k][1]] ELSE 0) + SumFrom(k + 1, v, edges, i)

SumAggr(v, edges) == [i \in DOMAIN v |-> SumFrom(1, v, edges, i)]

SumConv(p, v, edges, with_mlp) ==
  IF with_mlp THEN Linear(p, SumAggr(v, edges)) ELSE SumAggr(v, edges)

\* gnn.py:174-181 (and 77-86), what propagate does to the convolution's
\* result c: normalisation, activation, dropout, residual
PostConv(p, tr, r, residual, c, h_residual, no_act) ==
  LET b == BatchNorm1d(p, c, tr)
      a == IF no_act THEN b ELSE [i \in DOMAIN b |-> relu(b[i])]
      d == dropout(a, tr, r)
  IN IF residual THEN [i \in DOMAIN d |-> d[i] + h_residual[i]] ELSE d

\* a mutant of Reverse: the rows are not swapped
ReverseKeepRows(edges) == edges

\* gnn.py:234, expander_edge_index[[1, 0]]
Reverse(edges) == [k \in DOMAIN edges |-> <<edges[k][2], edges[k][1]>>]

\* gnn.py:69 and 201
InitHistory(h0) == <<h0>>

\* gnn.py:94-96 and 247-249
RECURSIVE JKSumFrom(_, _, _)
JKSumFrom(l, last, hl) ==
  IF l > last THEN Zero
  ELSE [i \in Nodes |-> hl[l + 1][i] + JKSumFrom(l + 1, last, hl)[i]]

JKSumSkipInitial(hl, num_layer) == JKSumFrom(1, num_layer, hl)

JKSum(hl, num_layer) == JKSumFrom(0, num_layer, hl)

\* gnn.py:91-92 and 244-245
JKLast(hl) == hl[Len(hl)]

\* gnn.py:85-86 and 179-180, what the in-place `h += h_list[layer]` of the
\* main phase leaves in the history: it writes into h, the tensor dropout
\* returned (in evaluation mode the tensor batch normalisation or relu
\* returned), never into its operand, so the history is as it was
HistoryAfterResidual(hl, l, residual, h_new) == hl

\* a mutant of HistoryAfterJK: the accumulator is the first entry itself
HistoryAfterJKInPlace(hl, JK, num_layer) ==
  IF JK = "sum" THEN [hl EXCEPT ![1] = JKSum(hl, num_layer)] ELSE hl

\* gnn.py:91-96 and 244-249, what the aggregation leaves in the history:
\* "last" only reads; "sum" starts from the integer 0, so its first `+=`
\* allocates the accumulator and the later in-place additions write into
\* that accumulator
HistoryAfterJK(hl, JK, num_layer) == hl

\* ---------------------------------------------------------------- readout
RECURSIVE GCD(_, _)
GCD(a, b) == IF b = 0 THEN a ELSE GCD(b, a % b)

Abs(a) == IF a < 0 THEN -a ELSE a

\* the quotient n / d, d > 0, as a fraction in lowest terms
Frac(n, d) ==
  LET g == GCD(Abs(n), d) IN <<n \div g, d \div g>>

MaxOf(S) == CHOOSE m \in S : \A k \in S : k <= m
MinOf(S) == CHOOSE m \in S : \A k \in S : m <= k

\* the rows a pooling operator returns: 0 .. batch.max()
Rows(b) == 0..MaxOf({b[i] : i \in DOMAIN b})
Group(b, g) == {i \in DOMAIN b : b[i] = g}

\* torch_geometric global_add_pool / global_mean_pool / global_max_pool,
\* bound at gnn.py:291-296
global_add_pool(v, b) == [g \in Rows(b) |-> SumOver(Group(b, g), v)]

global_mean_pool(v, b) ==
  [g \in Rows(b) |->
     IF Group(b, g) = {} THEN Frac(0, 1)
     ELSE Frac(SumOver(Group(b, g), v), Cardinality(Group(b, g)))]

global_max_pool(v, b) ==
  [g \in Rows(b) |->
     IF Group(b, g) = {} THEN 0 ELSE MaxOf({v[i] : i \in Group(b, g)})]

\* softmax over the nodes of one group: the weight of node i is
\* exp(e[i]) / sum of exp(e[j]); exp is taken to base 2 and the weights are
\* kept unnormalised, relative to the smallest exponent of the group
SoftmaxWeights(e, grp) ==
  [i \in grp |-> 2 ^ (e[i] - MinOf({e[j] : j \in grp}))]

WeightedMean(w, v, grp) ==
  IF grp = {} THEN Frac(0, 1)
  ELSE Frac(SumOver(grp, [i \in grp |-> w[i] * v[i]]), SumOver(grp, w))

\* gnn.py:297-300: GlobalAttention whose gate network is
\* Linear, BatchNorm1d, ReLU, Linear, applied to the rows of all nodes
gate_nn(p, v, tr) == mlp(p, v, tr)

GlobalAttention(p, tr, v, b) ==
  [g \in Rows(b) |->
     WeightedMean(SoftmaxWeights(gate_nn(p, v, tr), Group(b, g)), v, Group(b, g))]

\* gnn.py:301-302: Set2Set with processing_steps = 2.  Each row of the
\* query is updated from that row alone (the LSTM acts row-wise), attention
\* is a softmax within the group; the result is the pair (query, readout).
Set2SetStep(p, q, v, b) ==
  [g \in Rows(b) |->
     LET e == [i \in Group(b, g) |-> v[i] * q[g][1]]
         r == WeightedMean(SoftmaxWeights(e, Group(b, g)), v, Group(b, g))
     IN <<p.w * (r[1] \div r[2]) + p.b, r[1] \div r[2]>>]

Set2Set(p, v, b) ==
  Set2SetStep(p, Set2SetStep(p, [g \in Rows(b) |-> <<0, 0>>], v, b), v, b)

\* gnn.py:291-304, self.pool
pool(kind, p, tr, v, b) ==
  IF kind = "sum" THEN global_add_pool(v, b)
  ELSE IF kind = "mean" THEN global_mean_pool(v, b)
  ELSE IF kind = "max" THEN global_max_pool(v, b)
  ELSE IF kind = "attention" THEN GlobalAttention(p, tr, v, b)
  ELSE Set2Set(p, v, b)

\* gnn.py:327-328, torch.where(expander_node_mask > 0, batch, -1) + 1
RemapBatch(b, mask) == [i \in DOMAIN b |-> IF mask[i] > 0 THEN b[i] + 1 ELSE 0]

\* gnn.py:330, [1:, :]
DropFirstRow(rows) == [g \in 1..MaxOf(DOMAIN rows) |-> rows[g]]

\* an operator returns rows 0 .. n-1; as a sequence they are rows 1 .. n
AsSeq(rows) == [g \in 1..(MaxOf(DOMAIN rows) + 1) |-> rows[g - 1]]

\* gnn.py:324-332
Readout(cfg, p, tr, v, b, mask) ==
  IF cfg.expander
    THEN DropFirstRow(pool(cfg.graph_pooling, p, tr, v, RemapBatch(b, mask)))
    ELSE AsSeq(pool(cfg.graph_pooling, p, tr, v, b))

\* ---------------------------------------------------------------- inputs
SeqsUpTo(S, n) == UNION {[1..k -> S] : k \in 0..n}

EdgeAttrVals == {1}

\* hub nodes are appended after the original nodes of a graph: the masks
\* with k original nodes followed by hub nodes
Masks == {[i \in Nodes |-> IF i <= k THEN 1 ELSE 0] : k \in 0..NumNodes}

\* an edge of the original graph joins two original nodes; the graphs drawn
\* are chains
OriginalPairs(mask) ==
  {e \in Nodes \X Nodes : e[2] = e[1] + 1 /\ mask[e[1]] = 1 /\ mask[e[2]] = 1}

\* an expander edge joins an original node to a hub node (spec 3)
ExpanderPairs(mask) ==
  {e \in Nodes \X Nodes : mask[e[1]] = 1 /\ mask[e[2]] = 0}

Seeds == 0..MaxSeed

Configs ==
  {c \in [num_layer : 1..MaxLayer,
          JK : {"last", "sum", "concat"},
          residual : BOOLEAN,
          gnn_type : {"gin"},
          task : {"mol", "ppa"},
          expander : BOOLEAN,
          expander_edge_handling : Handlings \cup {"other"},
          graph_pooling : {"mean"},
          max_seq_len : {None},
          node_encoder : {"None"}] :
     ~c.expander => c.expander_edge_handling = "learn-features"}

Init ==
  /\ pc = "new"
  /\ self \in Configs
  /\ params \in ParamSets
  /\ model = NoSublayers
  /\ training = FALSE
  /\ rng = 0
  /\ x = Zero
  /\ edge_index = <<>>
  /\ edge_attr = None
  /\ expander_edge_index = <<>>
  /\ expander_node_mask = Ones
  /\ h = Zero
  /\ h_list = <<>>
  /\ layer = 0
  /\ phase = "none"
  /\ h_main = Zero
  /\ h_hub = Zero
  /\ call = NoCall
  /\ conv_aggr = Zero
  /\ conv_out = Zero
  /\ node_representation = Zero
  /\ err = "none"
  /\ batch = Zero
  /\ h_graph = <<>>
  /\ alt_representation = Zero
  /\ alt_graph = <<>>
  /\ head_params = <<>>
  /\ pred = <<>>
  /\ first_out = Zero
  /\ passes = 0
  /\ NoRun

\* ---------------------------------------------------------------- actions
\* GNN.__init__, gnn.py:256-319
Construct ==
  /\ pc = "new"
  /\ model' = GNN_init(self)
  /\ err' = model'.err
  /\ pc' = IF model'.err = "none" THEN "ready" ELSE "error"
  /\ UNCHANGED <<run, data, readout, output, rng, h, h_list, layer, phase, h_main, h_hub, call,
                 conv_aggr, conv_out, node_representation>>

\* model.train() / model.eval() (run_ppa.py:24, 42) and the batch handed to
\* the forward pass (run_ppa.py:32, 53)
Call ==
  /\ pc = "ready"
  /\ \E tr \in BOOLEAN :
       /\ training' = tr
       /\ rng' \in (IF tr THEN Seeds ELSE {0})
  /\ x' \in Vec
  /\ IF self.expander
       THEN /\ expander_node_mask' \in Masks
            /\ expander_edge_index' \in
                 SeqsUpTo(ExpanderPairs(expander_node_mask'), MaxEdges)
       ELSE UNCHANGED <<expander_node_mask, expander_edge_index>>
  /\ edge_index' \in SeqsUpTo(OriginalPairs(expander_node_mask'), MaxEdges)
  /\ edge_attr' \in {Some(a) : a \in [DOMAIN edge_index' -> EdgeAttrVals]}
  /\ pc' = "forward"
  /\ UNCHANGED <<run, self, model, params, readout, output, h, h_list, layer, phase, h_main, h_hub,
                 call, conv_aggr, conv_out, node_representation, err>>

\* GNN_node.forward, gnn.py:59-69
Encode ==
  /\ pc = "forward"
  /\ ~self.expander
  /\ h' = node_encoder(params, x)
  /\ h_list' = InitHistory(h')
  /\ layer' = 0
  /\ pc' = "main"
  /\ UNCHANGED <<run, data, readout, output, model, rng, phase, h_main, h_hub, call, conv_aggr,
                 conv_out, node_representation, err>>

\* a mutant of MaskRows: the hub rows keep their encoding
MaskRowsKeep(v, mask) == v

\* gnn.py:197-200, `h = h * expander_node_mask` with the mask broadcast over
\* the feature columns: rows of original nodes are kept, hub rows are zeroed
MaskRows(v, mask) == [i \in DOMAIN v |-> v[i] * mask[i]]

\* GNN_node_expander.forward, gnn.py:184-201
EncodeExpander ==
  /\ pc = "forward"
  /\ self.expander
  /\ h' = MaskRows(node_encoder(params, x), expander_node_mask)
  /\ h_list' = InitHistory(h')
  /\ layer' = 0
  /\ pc' = "main"
  /\ UNCHANGED <<run, data, readout, output, model, rng, phase, h_main, h_hub, call, conv_aggr,
                 conv_out, node_representation, err>>

AfterLayerShort(l) == IF l + 1 < self.num_layer - 1 THEN "main" ELSE "jk"

\* gnn.py:72 and 202, `for layer in range(self.num_layer)`: where the program
\* goes after iteration l
AfterLayer(l) == IF l + 1 < self.num_layer THEN "main" ELSE "jk"

\* GNN_node.forward, gnn.py:72-88: one iteration of the layer loop
NodeLayer ==
  /\ pc = "main"
  /\ ~self.expander
  /\ call' = [edge_index |-> edge_index, masking |-> FALSE,
               update_nodes |-> "original", x |-> h_list[layer + 1]]
  /\ conv_aggr' = ConvAggr(params, call'.x, edge_index, edge_attr, FALSE, Ones)
  /\ conv_out' = GINConv(params, training, call'.x, edge_index, edge_attr, FALSE,
                         Ones, "original")
  /\ h' = PostConv(params, training, rng, self.residual, conv_out', call'.x,
                   layer = self.num_layer - 1)
  /\ h_main' = h'
  /\ h_list' = Append(HistoryAfterResidual(h_list, layer, self.residual, h'), h')
  /\ rng' = IF training THEN NextRng(rng) ELSE rng
  /\ phase' = "main"
  /\ layer' = layer + 1
  /\ pc' = AfterLayer(layer)
  /\ UNCHANGED <<run, data, readout, output, model, h_hub, node_representation, err>>

\* a mutant of HasExpanderPhases: the last layer has them too
HasExpanderPhasesAlways(l, num_layer) == TRUE

\* gnn.py:216, the hub and return phases run in every layer but the last
HasExpanderPhases(l, num_layer) == l # num_layer - 1

\* GNN_node_expander.forward, gnn.py:203-211: the main phase
MainPhase ==
  /\ pc = "main"
  /\ self.expander
  /\ call' = [edge_index |-> edge_index, masking |-> FALSE,
               update_nodes |-> "original", x |-> h_list[layer + 1]]
  /\ conv_aggr' = ConvAggr(params, call'.x, edge_index, edge_attr, FALSE,
                            expander_node_mask)
  /\ conv_out' = GINConv(params, training, call'.x, edge_index, edge_attr, FALSE,
                         expander_node_mask, "original")
  /\ h' = PostConv(params, training, rng, self.residual, conv_out', call'.x,
                   layer = self.num_layer - 1)
  /\ h_main' = h'
  /\ h_list' = HistoryAfterResidual(h_list, layer, self.residual, h')
  /\ rng' = IF training THEN NextRng(rng) ELSE rng
  /\ phase' = "main"
  /\ pc' = IF HasExpanderPhases(layer, self.num_layer) THEN "hub" ELSE "append"
  /\ UNCHANGED <<run, data, readout, output, model, layer, h_hub, node_representation, err>>

\* a mutant of HubSum: the previous value is counted twice
HubSumTwice(hm, h_edge, mask) ==
  [i \in Nodes |-> 2 * hm[i] + h_edge[i] * (1 - mask[i])]

\* gnn.py:220
HubSum(hm, h_edge, mask) == [i \in Nodes |-> hm[i] + h_edge[i] * (1 - mask[i])]

\* gnn.py:217-220: the hub phase of the summation strategies
HubSummation ==
  /\ pc = "hub"
  /\ self.expander_edge_handling \in SumHandlings
  /\ call' = [edge_index |-> expander_edge_index, masking |-> FALSE,
               update_nodes |-> "none",
               x |-> [i \in Nodes |-> h[i] * expander_node_mask[i]]]
  /\ conv_aggr' = SumAggr(call'.x, expander_edge_index)
  /\ conv_out' = SumConv(params, call'.x, expander_edge_index,
                         self.expander_edge_handling = "summation-mlp")
  /\ h' = HubSum(call'.x, conv_out', expander_node_mask)
  /\ h_hub' = h'
  /\ phase' = "hub"
  /\ pc' = "return"
  /\ UNCHANGED <<run, data, readout, output, model, rng, h_list, layer, h_main,
                 node_representation, err>>

\* a mutant of HubMasking: every convolution strategy masks
HubMaskingAlways(handling) == TRUE

\* a mutant of HubMasking: every strategy but learn-features masks
HubMaskingUnlessLearn(handling) == handling # "learn-features"

\* gnn.py:222-225
HubMasking(handling) == handling = "masking"

\* gnn.py:221-231: the hub phase of the convolution strategies
HubConv ==
  /\ pc = "hub"
  /\ self.expander_edge_handling \notin SumHandlings
  /\ call' = [edge_index |-> expander_edge_index,
               masking |-> HubMasking(self.expander_edge_handling),
               update_nodes |-> "expander", x |-> h]
  /\ conv_aggr' = ConvAggr(params, h, expander_edge_index, None, call'.masking,
                            expander_node_mask)
  /\ conv_out' = GINConv(params, training, h, expander_edge_index, None,
                         call'.masking, expander_node_mask, "expander")
  /\ h' = PostConv(params, training, rng, self.residual, conv_out', h, FALSE)
  /\ h_hub' = h'
  /\ rng' = IF training THEN NextRng(rng) ELSE rng
  /\ phase' = "hub"
  /\ pc' = "return"
  /\ UNCHANGED <<run, data, readout, output, model, h_list, layer, h_main, node_representation, err>>

\* gnn.py:233-238: the return phase
ReturnPhase ==
  /\ pc = "return"
  /\ call' = [edge_index |-> Reverse(expander_edge_index), masking |-> FALSE,
               update_nodes |-> "original", x |-> h]
  /\ conv_aggr' = ConvAggr(params, h, call'.edge_index, None, FALSE,
                            expander_node_mask)
  /\ conv_out' = GINConv(params, training, h, call'.edge_index, None, FALSE,
                         expander_node_mask, "original")
  /\ h' = PostConv(params, training, rng, self.residual, conv_out', h, FALSE)
  /\ rng' = IF training THEN NextRng(rng) ELSE rng
  /\ phase' = "return"
  /\ pc' = "append"
  /\ UNCHANGED <<run, data, readout, output, model, h_list, layer, h_main, h_hub, node_representation, err>>

\* gnn.py:241
AppendHistory ==
  /\ pc = "append"
  /\ h_list' = Append(h_list, h)
  /\ layer' = layer + 1
  /\ pc' = AfterLayer(layer)
  /\ UNCHANGED <<run, data, readout, output, model, rng, h, phase, h_main, h_hub, call, conv_aggr,
                 conv_out, node_representation, err>>

\* gnn.py:91-98 and 244-251
JumpingKnowledge ==
  /\ pc = "jk"
  /\ IF self.JK = "last"
       THEN /\ node_representation' = JKLast(h_list)
            /\ pc' = "done"
            /\ err' = err
     ELSE IF self.JK = "sum"
       THEN /\ node_representation' = JKSum(h_list, self.num_layer)
            /\ pc' = "done"
            /\ err' = err
     ELSE \* node_representation was never bound: `return` raises
          /\ node_representation' = node_representation
          /\ pc' = "error"
          /\ err' = "UnboundLocalError"
  /\ h_list' = HistoryAfterJK(h_list, self.JK, self.num_layer)
  /\ UNCHANGED <<run, data, readout, output, model, rng, h, layer, phase, h_main, h_hub, call,
                 conv_aggr, conv_out>>

Next ==
  \/ Construct
  \/ Call
  \/ Encode
  \/ EncodeExpander
  \/ NodeLayer
  \/ MainPhase
  \/ HubSummation
  \/ HubConv
  \/ ReturnPhase
  \/ AppendHistory
  \/ JumpingKnowledge

Spec == Init /\ [][Next]_vars

\* ================================================================ claims
Original(i) == expander_node_mask[i] = 1
Hub(i) == expander_node_mask[i] = 0

\* C1 (as claimed): in expander mode, after the hub phase of a layer
\* l < L-1, every node with mask = 1 has exactly the value it had
\* immediately before the hub phase, for every edge-handling strategy.
C1_HubPhaseKeepsOriginal ==
  (phase = "hub" /\ self.expander_edge_handling \in Handlings)
    => \A i \in Nodes : Original(i) => h[i] = h_main[i]

C7_UnknownJKRejectedAtConstruction ==
  (self.JK \notin JKModes /\ pc # "new") => (pc = "error" /\ model.err # "none")

ValidConfig(cfg) ==
  /\ cfg.task \in {"mol", "ppa", "code2"}
  /\ cfg.gnn_type \in {"gin", "gcn"}
  /\ cfg.JK \in JKModes
  /\ cfg.graph_pooling \in Poolings
  /\ cfg.expander_edge_handling \in Handlings
  /\ cfg.task = "code2" => (~cfg.max_seq_len.none /\ cfg.node_encoder # "None")

\* C8 (as claimed): num_layer < 2 raises a configuration error at
\* construction before any sublayer is built; num_layer = 2 with an
\* otherwise valid configuration constructs.
C8_NumLayerCheck ==
  pc # "new" =>
    /\ self.num_layer < 2 => (model = [NoSublayers EXCEPT !.err = "ValueError"])
    /\ (self.num_layer = 2 /\ ValidConfig(self)) => model.err = "none"

\* C9: at the end of the layer loop the history has num_layer + 1 entries,
\* for both engines.
C9_HistoryLength ==
  pc \in {"jk", "done"} => Len(h_list) = self.num_layer + 1

\* C9 witness: the layer loop of each kind of engine has ended with the
\* largest number of layers.
C9_Witness ==
  pc = "jk" /\ self.num_layer = MaxLayer /\ self.expander /\ Len(h_list) = MaxLayer + 1

\* C10: JK = "last" returns the final history entry, JK = "sum" the
\* elementwise sum of all num_layer + 1 entries, the initial one included.
C10_JumpingKnowledge ==
  pc = "done" =>
    /\ self.JK = "last" => node_representation = h_list[Len(h_list)]
    /\ self.JK = "sum" =>
         /\ Len(h_list) = self.num_layer + 1
         /\ \A i \in Nodes :
              node_representation[i] =
                Sum([l \in 1..(self.num_layer + 1) |-> h_list[l][i]])

\* C10 witness: a sum over a history whose initial entry is not zero and
\* whose last entry differs from the sum.
C10_Witness ==
  /\ pc = "done"
  /\ self.JK = "sum"
  /\ \E i \in Nodes : h_list[1][i] # 0
  /\ node_representation # h_list[Len(h_list)]

\* ============================================== the convolution on its own
AllMasks == [Nodes -> {0, 1}]

InitConv ==
  /\ pc = "conv"
  /\ self \in {c \in Configs : c.num_layer = 2 /\ c.JK = "last" /\ ~c.residual
                               /\ c.task = "mol" /\ ~c.expander}
  /\ params \in ParamSets
  /\ model = NoSublayers
  /\ training \in BOOLEAN
  /\ rng = 0
  /\ x = Zero
  /\ edge_index = <<>>
  /\ expander_edge_index = <<>>
  /\ expander_node_mask \in AllMasks
  /\ call \in [edge_index : SeqsUpTo(Nodes \X Nodes, MaxEdges),
               masking : BOOLEAN,
               update_nodes : {"original", "expander"},
               x : Vec]
  /\ edge_attr \in {None, Some([k \in DOMAIN call.edge_index |-> 1])}
  /\ h = Zero
  /\ h_list = <<>>
  /\ layer = 0
  /\ phase = "none"
  /\ h_main = Zero
  /\ h_hub = Zero
  /\ conv_aggr = Zero
  /\ conv_out = Zero
  /\ node_representation = Zero
  /\ err = "none"
  /\ batch = Zero
  /\ h_graph = <<>>
  /\ alt_representation = Zero
  /\ alt_graph = <<>>
  /\ head_params = <<>>
  /\ pred = <<>>
  /\ first_out = Zero
  /\ passes = 0
  /\ NoRun

\* GINConv.forward, gin.py:33-52
ConvForward ==
  /\ pc = "conv"
  /\ conv_aggr' = ConvAggr(params, call.x, call.edge_index, edge_attr, call.masking,
                           expander_node_mask)
  /\ conv_out' = GINConv(params, training, call.x, call.edge_index, edge_attr,
                         call.masking, expander_node_mask, call.update_nodes)
  /\ pc' = "conv_done"
  /\ UNCHANGED <<run, data, readout, output, model, rng, h, h_list, layer, phase, h_main, h_hub,
                 call, node_representation, err>>

SpecConv == InitConv /\ [][ConvForward]_vars

\* C3: with update_nodes = "expander", the output at every node with
\* mask = 1 equals that node's value in the input passed to the call, for
\* every input, masking flag and mask.
C3_ExpanderUpdateKeepsOriginal ==
  (pc = "conv_done" /\ call.update_nodes = "expander")
    => \A i \in Nodes : Original(i) => conv_out[i] = call.x[i]

\* C3 witness: a call with masking on, on a batch of original and hub nodes
\* joined by an edge, where the output at a hub node differs from its input.
C3_Witness ==
  /\ pc = "conv_done"
  /\ call.update_nodes = "expander"
  /\ call.masking
  /\ \E k \in DOMAIN call.edge_index :
       Original(call.edge_index[k][1]) /\ Hub(call.edge_index[k][2])
  /\ \E i \in Nodes : Hub(i) /\ conv_out[i] # call.x[i]
  /\ \A i \in Nodes : Original(i) => conv_out[i] = call.x[i]

\* C4 (as claimed): with update_nodes = "original", the output at every
\* node with mask = 0 equals that node's value in the input passed to the
\* call, for every input, masking flag and mask.
C4_OriginalUpdateKeepsHub ==
  (pc = "conv_done" /\ call.update_nodes = "original")
    => \A i \in Nodes : Hub(i) => conv_out[i] = call.x[i]

\* =================================================== the readout on its own
Batches ==
  {b \in [Nodes -> 0..(MaxGraphs - 1)] :
     /\ b[1] = 0
     /\ \A i \in Nodes : (i + 1) \in Nodes => b[i + 1] \in {b[i], b[i] + 1}}

InitReadout ==
  /\ pc = "pool"
  /\ self \in
       {[c EXCEPT !.graph_pooling = k] :
          c \in {d \in Configs : d.num_layer = 2 /\ d.JK = "last" /\ ~d.residual
                                 /\ d.task = "mol" /\ d.expander
                                 /\ d.expander_edge_handling = "masking"},
          k \in Poolings}
  /\ params \in ParamSets
  /\ model = GNN_init(self)
  /\ training \in BOOLEAN
  /\ rng = 0
  /\ x = Zero
  /\ edge_index = <<>>
  /\ edge_attr = None
  /\ expander_edge_index = <<>>
  /\ expander_node_mask \in AllMasks
  /\ batch \in Batches
  /\ node_representation \in Vec
  /\ alt_representation \in
       {v \in Vec : \A i \in Nodes : Original(i) => v[i] = node_representation[i]}
  /\ call = NoCall
  /\ h = Zero
  /\ h_list = <<>>
  /\ layer = 0
  /\ phase = "none"
  /\ h_main = Zero
  /\ h_hub = Zero
  /\ conv_aggr = Zero
  /\ conv_out = Zero
  /\ err = "none"
  /\ h_graph = <<>>
  /\ alt_graph = <<>>
  /\ head_params = <<>>
  /\ pred = <<>>
  /\ first_out = Zero
  /\ passes = 0
  /\ NoRun

\* GNN.forward, gnn.py:324-332, on the node vectors of two runs
Pool ==
  /\ pc = "pool"
  /\ h_graph' = Readout(self, params, training, node_representation, batch,
                        expander_node_mask)
  /\ alt_graph' = Readout(self, params, training, alt_representation, batch,
                          expander_node_mask)
  /\ pc' = "pooled"
  /\ UNCHANGED <<run, data, output, model, rng, h, h_list, layer, phase, h_main, h_hub,
                 call, conv_aggr, conv_out, node_representation, err, batch,
                 alt_representation>>

SpecReadout == InitReadout /\ [][Pool]_vars

\* C5 (as claimed): two readouts over the same batch whose node vectors
\* differ only at hub nodes give identical pooled vectors, for every pooling
\* kind.
C5_ReadoutExclusion ==
  (pc = "pooled" /\ self.expander) => h_graph = alt_graph

\* C11 (as claimed): in expander mode, on a batch in which every graph has an
\* original node, the readout returns one row per source graph, and row g is
\* what the pooling operator gives on the nodes with batch index g and
\* mask = 1 alone.
C11_ReadoutAlignment ==
  LET originals == {i \in Nodes : Original(i)}
      num_graphs == MaxOf({batch[i] : i \in Nodes}) + 1
  IN (/\ pc = "pooled"
      /\ self.expander
      /\ \A g \in 0..(num_graphs - 1) : \E i \in originals : batch[i] = g)
       => /\ Len(h_graph) = num_graphs
          /\ h_graph = AsSeq(pool(self.graph_pooling, params, training,
                                  [i \in originals |-> node_representation[i]],
                                  [i \in originals |-> batch[i]]))

\* ========================================== the prediction head on its own
\* a mutant of pred_list: each projection is applied to the previous output
RECURSIVE pred_list_chained(_, _, _)
pred_list_chained(hp, hg, n) ==
  IF n = 0 THEN <<>>
  ELSE LET before == pred_list_chained(hp, hg, n - 1)
       IN Append(before, Linear(hp[n], IF n = 1 THEN hg ELSE before[n - 1]))

\* gnn.py:335-338
pred_list(hp, hg, n) == [i \in 1..n |-> Linear(hp[i], hg)]

\* gnn.py:334-340
GNN_forward_head(cfg, hp, hg) ==
  IF cfg.task = "code2" THEN pred_list(hp, hg, cfg.max_seq_len.val)
  ELSE Linear(hp[1], hg)

\* the constructor arguments that decide the prediction heads
HeadConfigs ==
  {[task |-> t, gnn_type |-> "gin", node_encoder |-> "given", num_layer |-> 2,
    expander_edge_handling |-> "learn-features", max_seq_len |-> m,
    expander |-> FALSE, graph_pooling |-> k, residual |-> FALSE, JK |-> "last"] :
     t \in {"mol", "code2"}, k \in {"mean", "set2set"},
     m \in {None} \cup {Some(n) : n \in 1..MaxSeqLen}}

\* pooled vectors of a batch of 1 .. MaxGraphs graphs
PooledVecs == UNION {[1..g -> Vals] : g \in 1..MaxGraphs}

InitHead ==
  /\ pc = "head"
  /\ self \in {c \in HeadConfigs : c.max_seq_len.none <=> c.task # "code2"}
  /\ params \in ParamSets
  /\ model = GNN_init(self)
  /\ head_params \in
       [1..(model.graph_pred_linear_list + model.graph_pred_linear) -> ParamSets]
  /\ h_graph \in PooledVecs
  /\ training = FALSE
  /\ rng = 0
  /\ x = Zero
  /\ edge_index = <<>>
  /\ edge_attr = None
  /\ expander_edge_index = <<>>
  /\ expander_node_mask = Ones
  /\ batch = Zero
  /\ node_representation = Zero
  /\ alt_representation = Zero
  /\ alt_graph = <<>>
  /\ call = NoCall
  /\ h = Zero
  /\ h_list = <<>>
  /\ layer = 0
  /\ phase = "none"
  /\ h_main = Zero
  /\ h_hub = Zero
  /\ conv_aggr = Zero
  /\ conv_out = Zero
  /\ err = "none"
  /\ pred = <<>>
  /\ first_out = Zero
  /\ passes = 0
  /\ NoRun

\* GNN.forward, gnn.py:334-340
Predict ==
  /\ pc = "head"
  /\ pred' = GNN_forward_head(self, head_params, h_graph)
  /\ pc' = "predicted"
  /\ UNCHANGED <<run, data, readout, model, rng, h, h_list, layer, phase, h_main, h_hub,
                 call, conv_aggr, conv_out, node_representation, err, head_params,
                 first_out, passes>>

SpecHead == InitHead /\ [][Predict]_vars

\* C12: for the sequence task the forward output is a list of exactly
\* max_seq_len elements, and element i is the i-th projection applied to the
\* pooled graph vector itself, whatever the other elements are.
C12_SequenceOutput ==
  (pc = "predicted" /\ self.task = "code2")
    => /\ Len(pred) = self.max_seq_len.val
       /\ \A i \in 1..self.max_seq_len.val :
            \A g \in DOMAIN h_graph :
              pred[i][g] = head_params[i].w * h_graph[g] + head_params[i].b

\* C12 witness: a sequence output of several elements with distinct
\* projections, the second of which is not the projection of the first.
C12_Witness ==
  /\ pc = "predicted"
  /\ self.task = "code2"
  /\ self.max_seq_len.val = MaxSeqLen
  /\ Len(pred) = MaxSeqLen
  /\ pred[1] # pred[2]
  /\ pred[2] # Linear(head_params[2], pred[1])

\* ================================================= construction on its own
\* constructor arguments, recognized and unrecognized
AllConfigs ==
  {c \in [num_layer : 1..MaxLayer,
          JK : {"last", "sum", "concat"},
          residual : {FALSE},
          gnn_type : {"gin", "gcn", "other"},
          task : {"mol", "ppa", "code2", "other"},
          expander : BOOLEAN,
          expander_edge_handling : Handlings \cup {"other"},
          graph_pooling : Poolings \cup {"other"},
          max_seq_len : {None, Some(1)},
          node_encoder : {"None", "given"}] :
     ~c.expander => c.expander_edge_handling = "learn-features"}

InitAll ==
  /\ pc = "new"
  /\ self \in AllConfigs
  /\ params \in ParamSets
  /\ model = NoSublayers
  /\ training = FALSE
  /\ rng = 0
  /\ x = Zero
  /\ edge_index = <<>>
  /\ edge_attr = None
  /\ expander_edge_index = <<>>
  /\ expander_node_mask = Ones
  /\ h = Zero
  /\ h_list = <<>>
  /\ layer = 0
  /\ phase = "none"
  /\ h_main = Zero
  /\ h_hub = Zero
  /\ call = NoCall
  /\ conv_aggr = Zero
  /\ conv_out = Zero
  /\ node_representation = Zero
  /\ err = "none"
  /\ batch = Zero
  /\ h_graph = <<>>
  /\ alt_representation = Zero
  /\ alt_graph = <<>>
  /\ head_params = <<>>
  /\ pred = <<>>
  /\ first_out = Zero
  /\ passes = 0
  /\ NoRun

SpecInit == InitAll /\ [][Construct]_vars

\* C13: an unrecognized gnn_type or graph_pooling makes construction raise
\* (ValueError when nothing else is wrong with the arguments), so no
\* constructed model has an unbound convolution or pooling operator.
C13_UnknownTypeOrPoolingRejected ==
  /\ (pc # "new" /\ (self.gnn_type \notin {"gin", "gcn"}
                     \/ self.graph_pooling \notin Poolings))
       => /\ pc = "error"
          /\ model.err \in {"ValueError", "AssertionError", "NotImplementedError"}
          /\ (self.task = "mol" /\ self.num_layer >= 2) => model.err = "ValueError"
  /\ pc = "ready" => (self.gnn_type \in {"gin", "gcn"} /\ self.graph_pooling \in Poolings)

\* C13 witness: construction built every convolution and then raised
\* ValueError for the unrecognized pooling kind.
C13_Witness ==
  /\ pc = "error"
  /\ model.err = "ValueError"
  /\ self.gnn_type = "gin"
  /\ self.graph_pooling \notin Poolings
  /\ model.convs = self.num_layer
  /\ self.num_layer >= 2

\* C14: a task key GINConv.__init__ binds no edge encoder for makes the
\* construction of the first convolution raise NotImplementedError; the
\* model is never constructed, so no forward call is reached.
C14_UnknownTaskRejectedAtConstruction ==
  /\ (/\ pc # "new"
      /\ self.gnn_type = "gin"
      /\ self.task \notin {"mol", "ppo", "code2"}
      /\ self.num_layer >= 2)
       => /\ pc = "error"
          /\ model.err = "NotImplementedError"
          /\ model.convs = 0
  /\ model.err = "NotImplementedError" => pc = "error"

\* C14 witness: construction with a task key unknown to the edge-encoder
\* selection has raised.
C14_Witness ==
  /\ pc = "error"
  /\ self.task \notin {"mol", "ppo", "code2"}
  /\ self.gnn_type = "gin"
  /\ err = "NotImplementedError"
  /\ model.convs = 0

\* C15: for the sequence task, construction without max_seq_len or without
\* a node encoder raises at construction (AssertionError, unless the layer
\* count was rejected first), so no forward pass is reached.
C15_SequenceTaskPreconditions ==
  (/\ pc # "new"
   /\ self.task = "code2"
   /\ (self.max_seq_len.none \/ self.node_encoder = "None"))
    => /\ pc = "error"
       /\ model.err \in {"AssertionError", "ValueError"}
       /\ (self.max_seq_len.none \/ self.num_layer >= 2) => model.err = "AssertionError"
       /\ model.convs = 0

\* C15 witness: the model was given max_seq_len but no node encoder, and the
\* engine's constructor raised.
C15_Witness ==
  /\ pc = "error"
  /\ self.task = "code2"
  /\ ~self.max_seq_len.none
  /\ self.node_encoder = "None"
  /\ self.num_layer >= 2
  /\ model.err = "AssertionError"

\* ====================================================== two forward passes
InitTwice ==
  /\ Init
  /\ self.num_layer = 2
  /\ self.JK \in JKModes
  /\ ~self.residual
  /\ self.task = "mol"
  /\ self.expander_edge_handling \in {"learn-features", "summation"}

\* a second call of the model on the same batch, with the same parameters and
\* in the same mode (run_ppa.py:32, 53); the random generator is where the
\* first pass left it
Again ==
  /\ pc = "done"
  /\ passes = 0
  /\ first_out' = node_representation
  /\ passes' = 1
  /\ phase' = "none"
  /\ pc' = "forward"
  /\ UNCHANGED <<run, data, readout, model, rng, h, h_list, layer, h_main, h_hub, call,
                 conv_aggr, conv_out, node_representation, err, head_params, pred>>

NextTwice == Next \/ Again

SpecTwice == InitTwice /\ [][NextTwice]_vars

C17_PhaseOrder ==
  [][/\ pc = "main" =>
         /\ Len(h_list) = layer + 1
         /\ phase' = "main"
         /\ IF self.expander
              THEN /\ h_list' = h_list
                   /\ layer' = layer
                   /\ pc' = IF layer # self.num_layer - 1 THEN "hub" ELSE "append"
              ELSE /\ h_list' = Append(h_list, h')
                   /\ layer' = layer + 1
                   /\ pc' \in {"main", "jk"}
     /\ pc = "hub" =>
         /\ self.expander /\ layer # self.num_layer - 1
         /\ phase = "main" /\ phase' = "hub"
         /\ h_list' = h_list /\ layer' = layer
         /\ pc' = "return"
     /\ pc = "return" =>
         /\ phase = "hub" /\ phase' = "return"
         /\ h_list' = h_list /\ layer' = layer
         /\ pc' = "append"
     /\ pc = "append" =>
         /\ phase = IF layer # self.num_layer - 1 THEN "return" ELSE "main"
         /\ h_list' = Append(h_list, h)
         /\ layer' = layer + 1
         /\ pc' = IF layer' < self.num_layer THEN "main" ELSE "jk"
     /\ pc = "jk" => (layer = self.num_layer /\ h_list' = h_list)
    ]_vars

\* C17 witness: the second layer of an expander engine of MaxLayer layers has
\* run its three phases and its entry is about to be appended.
C17_Witness ==
  /\ pc = "append"
  /\ self.expander
  /\ self.num_layer = MaxLayer
  /\ layer = 1
  /\ phase = "return"
  /\ Len(h_list) = 2

\* C18: in the hub phase of the summation strategies the hub slots are zeroed
\* before the summation, every original-node slot keeps the value it had
\* before the phase, and every hub slot ends as the summation sublayer's
\* contribution alone.
C18_SummationHubPhase ==
  (phase = "hub" /\ self.expander_edge_handling \in SumHandlings)
    => \A i \in Nodes :
         /\ Original(i) => h[i] = h_main[i]
         /\ Hub(i) => (call.x[i] = 0 /\ h[i] = conv_out[i])

\* C18 witness: a summation hub phase on a batch with an expander edge has
\* replaced a non-zero hub value and kept a non-zero original value.
C18_Witness ==
  /\ phase = "hub"
  /\ self.expander_edge_handling \in SumHandlings
  /\ expander_edge_index # <<>>
  /\ \E i \in Nodes : Hub(i) /\ h_main[i] # 0 /\ h[i] # h_main[i] /\ h[i] = conv_out[i]
  /\ \E i \in Nodes : Original(i) /\ h[i] # 0 /\ h[i] = h_main[i]

\* C19 (as claimed): the hub-phase convolution is called with masking on
\* exactly for the masking strategy, and then the original-node features are
\* zeroed before aggregation: the messages a hub node receives are those of
\* zeroed original nodes.
C19_MaskingZeroesOriginals ==
  (phase = "hub" /\ self.expander_edge_handling \notin SumHandlings)
    => /\ call.masking = (self.expander_edge_handling = "masking")
       /\ call.masking =>
            \A i \in Nodes :
              Hub(i) =>
                conv_aggr[i] =
                  SumOver({k \in DOMAIN call.edge_index : call.edge_index[k][2] = i},
                          [k \in DOMAIN call.edge_index |->
                             relu(IF Original(call.edge_index[k][1]) THEN 0
                                  ELSE h_main[call.edge_index[k][1]])])

\* C19 (amended): the hub-phase convolution is called with masking on exactly
\* for the masking strategy, and then the hub-node features (mask = 0) are
\* zeroed before aggregation while original-node features enter unchanged:
\* the messages a hub node receives carry the original nodes' values.
C19_MaskingZeroesHubs ==
  (phase = "hub" /\ self.expander_edge_handling \notin SumHandlings)
    => /\ call.masking = (self.expander_edge_handling = "masking")
       /\ call.update_nodes = "expander"
       /\ call.masking =>
            \A i \in Nodes :
              conv_aggr[i] =
                SumOver({k \in DOMAIN call.edge_index : call.edge_index[k][2] = i},
                        [k \in DOMAIN call.edge_index |->
                           relu(IF Hub(call.edge_index[k][1]) THEN 0
                                ELSE h_main[call.edge_index[k][1]])])

\* C19 witness: under the masking strategy a hub node whose own value was not
\* zero has received a positive message from an original node.
C19_Witness ==
  /\ phase = "hub"
  /\ self.expander_edge_handling = "masking"
  /\ call.masking
  /\ \E k \in DOMAIN expander_edge_index :
       /\ Original(expander_edge_index[k][1])
       /\ Hub(expander_edge_index[k][2])
       /\ h_main[expander_edge_index[k][1]] > 0
       /\ h_main[expander_edge_index[k][2]] # 0
       /\ conv_aggr[expander_edge_index[k][2]] > 0

\* C20: a call with masking on gives what a call with masking off gives on
\* the input whose mask = 0 rows are zero and whose mask = 1 rows are
\* unchanged: the aggregated messages and the output carry no mask = 0
\* node's prior value.
C20_MaskingZeroesMaskedRows ==
  (pc = "conv_done" /\ call.masking)
    => LET zeroed == [i \in Nodes |-> IF Hub(i) THEN 0 ELSE call.x[i]]
       IN /\ conv_aggr = ConvAggr(params, zeroed, call.edge_index, edge_attr, FALSE,
                                  expander_node_mask)
          /\ conv_out = GINConv(params, training, zeroed, call.edge_index, edge_attr,
                                FALSE, expander_node_mask, call.update_nodes)

\* C20 witness: a call with masking on whose edge leaves a mask = 0 node with
\* a positive value and enters a mask = 1 node; without masking the message
\* would have been different.
C20_Witness ==
  /\ pc = "conv_done"
  /\ call.masking
  /\ \E k \in DOMAIN call.edge_index :
       /\ Hub(call.edge_index[k][1])
       /\ Original(call.edge_index[k][2])
       /\ call.x[call.edge_index[k][1]] > 0
  /\ conv_aggr # ConvAggr(params, call.x, call.edge_index, edge_attr, FALSE,
                          expander_node_mask)

C22_HeadsRegistered ==
  pc = "predicted" =>
    model.head_parameters = model.graph_pred_linear_list + model.graph_pred_linear

\* C23 (as claimed): with the additive convolution, every task key the
\* engine binds a node encoder for constructs without raising, the arguments
\* being valid otherwise.
C23_TaskKeysConsistent ==
  (/\ pc # "new"
   /\ self.gnn_type = "gin"
   /\ self.task \in {"mol", "ppa", "code2"}
   /\ self.num_layer >= 2
   /\ ValidConfig(self))
    => (pc = "ready" /\ model.err = "none")

C25_InitialHistoryEntry ==
  (self.expander /\ Len(h_list) >= 1)
    => \A i \in Nodes :
         h_list[1][i] = IF expander_node_mask[i] = 1 THEN node_encoder(params, x)[i] ELSE 0

\* C25 witness: a hub node whose raw feature encodes to a nonzero value, next
\* to an original node that kept a nonzero encoding.
C25_Witness ==
  /\ self.expander
  /\ Len(h_list) >= 1
  /\ \E i, j \in Nodes :
       /\ expander_node_mask[i] = 0
       /\ x[i] # 0
       /\ node_encoder(params, x)[i] # 0
       /\ h_list[1][i] = 0
       /\ expander_node_mask[j] = 1
       /\ h_list[1][j] # 0

\* C26: an expander_edge_handling outside the four strategies is not rejected
\* at construction: the model is built as for learn-features, with hub-phase
\* convolution sublayers and no summation sublayer, and the hub phase of a
\* forward pass is the learn-features one, a convolution over the expander
\* edges with masking false that updates the hub nodes.
C26_UnknownHandlingIsLearnFeatures ==
  (self.expander /\ self.expander_edge_handling \notin Handlings /\ pc # "new")
    => /\ model = GNN_init([self EXCEPT !.expander_edge_handling = "learn-features"])
       /\ (ValidConfig(self) /\ self.task = "mol")
            => /\ model.err = "none"
               /\ pc # "error"
               /\ model.expander_left_convs = self.num_layer - 1
               /\ model.summation = 0
       /\ phase = "hub"
            => /\ ~call.masking
               /\ call.update_nodes = "expander"
               /\ call.edge_index = expander_edge_index
               /\ conv_out = GINConv(params, training, h_main, expander_edge_index, None,
                                     FALSE, expander_node_mask, "expander")

\* C26 witness: a model with an unrecognised handling was built and its hub
\* phase ran over an expander edge; masking would have given another result.
C26_Witness ==
  /\ self.expander
  /\ self.expander_edge_handling \notin Handlings
  /\ model.err = "none"
  /\ model.expander_left_convs = self.num_layer - 1
  /\ phase = "hub"
  /\ Len(expander_edge_index) >= 1
  /\ conv_out # GINConv(params, training, h_main, expander_edge_index, None,
                        TRUE, expander_node_mask, "expander")

\* ------------------------------------------------------ the training drivers
\* validation scores: the value of dataset.eval_metric, never negative
Scores == 0..MaxScore

Drivers == {"run_ppa", "run_code2", "run_mol"}

\* dataset.task_type of the datasets a driver is run on: run_mol takes the
\* molecular property datasets, classification and regression alike
TaskTypes(d) ==
  IF d = "run_mol" THEN {"binary classification", "regression"}
  ELSE IF d = "run_ppa" THEN {"multiclass classification"}
  ELSE {"subtoken prediction"}

\* run_mol.py:213 and 217, `'classification' in dataset.task_type`
IsClassification(t) == t \in {"binary classification", "multiclass classification"}

\* the condition of the checkpoint: run_ppa.py:208, run_code2.py:328,
\* run_mol.py:213
SavesCheckpoint(d, t, valid_perf, best) ==
  (d = "run_mol" => IsClassification(t)) /\ valid_perf > best

\* np.argmax / np.argmin of a non-empty curve: the 0-based index of the first
\* occurrence of the extreme value
argmax(curve) ==
  MinOf({k \in DOMAIN curve : \A j \in DOMAIN curve : curve[j] <= curve[k]}) - 1
argmin(curve) ==
  MinOf({k \in DOMAIN curve : \A j \in DOMAIN curve : curve[k] <= curve[j]}) - 1

\* run_ppa.py:211, run_code2.py:332, run_mol.py:217-222
BestValEpoch(d, t, curve) ==
  IF d = "run_mol" /\ ~IsClassification(t) THEN argmin(curve) ELSE argmax(curve)

\* the state of a driver before its first epoch: the model is built, the
\* curves are empty, best_val_so_far is 0
InitTrain ==
  /\ pc = "loop"
  /\ self \in {c \in Configs : /\ c.num_layer = 2 /\ c.JK = "last" /\ ~c.residual
                               /\ c.task = "mol" /\ ~c.expander
                               /\ c.expander_edge_handling = "learn-features"}
  /\ params = CHOOSE p \in ParamSets : TRUE
  /\ model = GNN_init(self)
  /\ training = FALSE
  /\ rng = 0
  /\ x = Zero
  /\ edge_index = <<>>
  /\ edge_attr = None
  /\ expander_edge_index = <<>>
  /\ expander_node_mask = Ones
  /\ h = Zero
  /\ h_list = <<>>
  /\ layer = 0
  /\ phase = "none"
  /\ h_main = Zero
  /\ h_hub = Zero
  /\ call = NoCall
  /\ conv_aggr = Zero
  /\ conv_out = Zero
  /\ node_representation = Zero
  /\ err = "none"
  /\ batch = Zero
  /\ h_graph = <<>>
  /\ alt_representation = Zero
  /\ alt_graph = <<>>
  /\ head_params = <<>>
  /\ pred = <<>>
  /\ first_out = Zero
  /\ passes = 0
  /\ driver \in Drivers
  /\ task_type \in TaskTypes(driver)
  /\ epochs \in 1..MaxEpochs
  /\ epoch = 0
  /\ valid_curve = <<>>
  /\ best_val_so_far = 0
  /\ best_val_model = None
  /\ saves = {}
  /\ best_val_epoch = None

\* one iteration of the epoch loop: run_ppa.py:188-210, run_code2.py:309-330,
\* run_mol.py:198-215
Epoch ==
  /\ pc = "loop"
  /\ epoch < epochs
  /\ epoch' = epoch + 1
  /\ \E valid_perf \in Scores :
       /\ valid_curve' = Append(valid_curve, valid_perf)
       /\ IF SavesCheckpoint(driver, task_type, valid_perf, best_val_so_far)
            THEN /\ best_val_model' = Some(epoch')
                 /\ saves' = saves \cup {epoch'}
                 /\ best_val_so_far' = valid_perf
            ELSE UNCHANGED <<best_val_model, saves, best_val_so_far>>
  /\ UNCHANGED <<pc, data, readout, output, model, rng, h, h_list, layer, phase, h_main, h_hub,
                 call, conv_aggr, conv_out, node_representation, err, driver, task_type,
                 epochs, best_val_epoch>>

\* after the loop: run_ppa.py:211-212, run_code2.py:332-334, run_mol.py:217-222
Finish ==
  /\ pc = "loop"
  /\ epoch = epochs
  /\ best_val_epoch' = Some(BestValEpoch(driver, task_type, valid_curve))
  /\ pc' = "finished"
  /\ UNCHANGED <<data, readout, output, model, rng, h, h_list, layer, phase, h_main, h_hub,
                 call, conv_aggr, conv_out, node_representation, err, driver, task_type,
                 epochs, epoch, valid_curve, best_val_so_far, best_val_model, saves>>

NextTrain == Epoch \/ Finish

SpecTrain == InitTrain /\ [][NextTrain]_vars

C28_SublayerSizing ==
  (self.expander /\ pc # "new" /\ model.err = "none")
    => /\ self.num_layer >= 2
       /\ model.convs = self.num_layer
       /\ model.batch_norms = self.num_layer
       /\ model.expander_right_convs = self.num_layer - 1
       /\ model.expander_left_batch_norms = self.num_layer - 1
       /\ model.expander_right_batch_norms = self.num_layer - 1
       /\ IF self.expander_edge_handling \in SumHandlings
            THEN model.summation = self.num_layer - 1 /\ model.expander_left_convs = 0
            ELSE model.expander_left_convs = self.num_layer - 1 /\ model.summation = 0
       /\ pc = "main" => (layer < model.convs /\ layer < model.batch_norms)
       /\ pc = "hub"
            => IF self.expander_edge_handling \in SumHandlings
                 THEN layer < model.summation
                 ELSE layer < model.expander_left_convs
                      /\ layer < model.expander_left_batch_norms
       /\ pc = "return"
            => /\ layer < model.expander_right_convs
               /\ layer < model.expander_right_batch_norms
       /\ pc \in {"main", "hub", "return", "append"} => layer + 1 <= Len(h_list)

\* C28 witness: a three-layer engine with a summation strategy is about to
\* run the return phase of its last inner layer, and has used the last
\* summation sublayer.
C28_Witness ==
  /\ self.expander
  /\ model.err = "none"
  /\ self.num_layer = 3
  /\ self.expander_edge_handling \in SumHandlings
  /\ model.summation = 2
  /\ pc = "return"
  /\ layer = 1

====
